---- MODULE Spec2Model ----
(***************************************************************************)
(* Model of the NSO REST connector                                         *)
(* (src/rest/connector/libs/nso/implementation.py, class Implementation).  *)
(*                                                                         *)
(* A Python string is a sequence of atoms: single characters where the     *)
(* code looks inside the string (lower(), lstrip(), "in", padding), and    *)
(* whole literal chunks where it only copies or compares it.  The atom     *)
(* "None" is reserved: the one-atom sequence None is Python's None.  A     *)
(* character that TLA+ cannot write is the atom of its Python escape:      *)
(* "\\x0b" is the vertical tab, "\\u2028" the line separator.              *)
(***************************************************************************)
EXTENDS Integers, Sequences, FiniteSets, TLC

VARIABLES
    connection_info,  \* self.connection_info: the configured connection
    sshtunnel,        \* device.connections[via].sshtunnel: the tunnel added
    _is_connected,    \* self._is_connected
    content_type,     \* self.content_type: the client-level default
    base_url,         \* self.base_url
    login_url,        \* self.login_url
    session,          \* self.session: the requests.Session of this client
    last_request,     \* the request the last public call handed to the transport
    last,             \* the last public call: its arguments and its outcome
    lock,             \* BaseConnection's lock: the thread holding it, or NoThread
    pc,               \* per thread: where it is inside a public call
    frame             \* per thread: the locals of the call it is in

vars == <<connection_info, sshtunnel, _is_connected, content_type, base_url,
          login_url, session, last_request, last, lock, pc, frame>>

(***************************************************************************)
(* Strings.                                                                *)
(***************************************************************************)
None == <<"None">>

json == <<"j", "s", "o", "n">>
xml == <<"x", "m", "l">>

\* str.lower() of one character: the ASCII capitals
LowerChar(c) ==
    CASE c = "A" -> "a"
      [] c = "B" -> "b"
      [] c = "C" -> "c"
      [] c = "D" -> "d"
      [] c = "E" -> "e"
      [] c = "F" -> "f"
      [] c = "G" -> "g"
      [] c = "H" -> "h"
      [] c = "I" -> "i"
      [] c = "J" -> "j"
      [] c = "K" -> "k"
      [] c = "L" -> "l"
      [] c = "M" -> "m"
      [] c = "N" -> "n"
      [] c = "O" -> "o"
      [] c = "P" -> "p"
      [] c = "Q" -> "q"
      [] c = "R" -> "r"
      [] c = "S" -> "s"
      [] c = "T" -> "t"
      [] c = "U" -> "u"
      [] c = "V" -> "v"
      [] c = "W" -> "w"
      [] c = "X" -> "x"
      [] c = "Y" -> "y"
      [] c = "Z" -> "z"
      [] OTHER -> c

lower(s) == [i \in DOMAIN s |-> LowerChar(s[i])]

\* str.format(fmt=f) on a template whose "{fmt}" atoms are the placeholders
RECURSIVE format(_, _)
format(template, f) ==
    IF template = <<>> THEN <<>>
    ELSE (IF Head(template) = "{fmt}" THEN f ELSE <<Head(template)>>)
         \o format(Tail(template), f)

\* "needle in s" for strings
contains(s, needle) ==
    \E i \in 1..(Len(s) - Len(needle) + 1) :
        SubSeq(s, i, i + Len(needle) - 1) = needle

\* the characters str.isspace() holds for
Whitespace ==
    {" ", "\t", "\n", "\r", "\f", "\\x0b", "\\x1c", "\\x1d", "\\x1e", "\\x1f",
     "\\x85", "\\xa0", "\\u1680", "\\u2000", "\\u2001", "\\u2002", "\\u2003",
     "\\u2004", "\\u2005", "\\u2006", "\\u2007", "\\u2008", "\\u2009",
     "\\u200a", "\\u2028", "\\u2029", "\\u202f", "\\u205f", "\\u3000"}

\* str.lstrip(): leading whitespace removed
RECURSIVE lstrip(_)
lstrip(s) ==
    IF s # <<>> /\ Head(s) \in Whitespace THEN lstrip(Tail(s)) ELSE s

\* re.match("<", s) is not None
match_lt(s) == s # <<>> /\ Head(s) = "<"

\* sep.join(parts)
RECURSIVE join(_, _)
join(parts, sep) ==
    IF parts = <<>> THEN <<>>
    ELSE IF Len(parts) = 1 THEN Head(parts)
    ELSE Head(parts) \o sep \o join(Tail(parts), sep)

\* s.split(sep) for a one-atom separator
RECURSIVE split(_, _)
split(s, sep) ==
    IF s = <<>> THEN << <<>> >>
    ELSE LET rest == split(Tail(s), sep)
         IN  IF Head(s) = sep THEN << <<>> >> \o rest
             ELSE << <<Head(s)>> \o Head(rest) >> \o Tail(rest)

(***************************************************************************)
(* ipaddress.ip_address and .exploded.  An IPv4 text is four decimal       *)
(* octets (one atom each) separated by "."; an IPv6 text is hexadecimal    *)
(* digits (one atom each, lower case), ":" and at most one "::" atom.      *)
(***************************************************************************)
DecOctets == {ToString(n) : n \in 0..255}
HexDigits == {"0", "1", "2", "3", "4", "5", "6", "7", "8", "9",
              "a", "b", "c", "d", "e", "f"}

IsIPv4(s) ==
    /\ Len(s) = 7
    /\ \A i \in {2, 4, 6} : s[i] = "."
    /\ \A i \in {1, 3, 5, 7} : s[i] \in DecOctets

IsHextet(g) == Len(g) \in 1..4 /\ \A i \in DOMAIN g : g[i] \in HexDigits

\* the hextets left and right of "::" (or all of them when there is none)
V6Parts(s) ==
    LET gaps == {i \in DOMAIN s : s[i] = "::"}
    IN  IF gaps = {} THEN [ok |-> TRUE, short |-> FALSE,
                           hi |-> split(s, ":"), lo |-> <<>>]
        ELSE IF Cardinality(gaps) > 1
             THEN [ok |-> FALSE, short |-> TRUE, hi |-> <<>>, lo |-> <<>>]
        ELSE LET k == CHOOSE i \in gaps : TRUE
                 l == SubSeq(s, 1, k - 1)
                 r == SubSeq(s, k + 1, Len(s))
             IN  [ok |-> TRUE, short |-> TRUE,
                  hi |-> IF l = <<>> THEN <<>> ELSE split(l, ":"),
                  lo |-> IF r = <<>> THEN <<>> ELSE split(r, ":")]

IsIPv6(s) ==
    LET p == V6Parts(s)
        n == Len(p.hi) + Len(p.lo)
    IN  /\ p.ok
        /\ \A i \in DOMAIN p.hi : IsHextet(p.hi[i])
        /\ \A i \in DOMAIN p.lo : IsHextet(p.lo[i])
        /\ IF p.short THEN n <= 7 ELSE n = 8

Pad4(g) == [i \in 1..(4 - Len(g)) |-> "0"] \o g

\* an address put into the URL the way the configuration wrote it
as_written6(s) == s

\* IPv6Address.exploded: eight four-digit groups
exploded6(s) ==
    LET p == V6Parts(s)
        zeros == [i \in 1..(8 - Len(p.hi) - Len(p.lo)) |-> <<"0", "0", "0", "0">>]
        groups == [i \in DOMAIN p.hi |-> Pad4(p.hi[i])] \o zeros
                  \o [i \in DOMAIN p.lo |-> Pad4(p.lo[i])]
    IN  join(groups, <<":">>)

(***************************************************************************)
(* Values: header maps, payloads, responses.                               *)
(***************************************************************************)
\* the header names the model follows; a map gives None to a key it lacks
HeaderNames == {"Accept", "Content-type", "X-Trace"}

EmptyHeaders == [k \in HeaderNames |-> None]

\* requests.Session().headers: the library's defaults (Accept: */*)
default_headers == [EmptyHeaders EXCEPT !["Accept"] = <<"*/*">>]

\* dict.update(other)
update(h, other) ==
    [k \in HeaderNames |-> IF other[k] # None THEN other[k] ELSE h[k]]

\* the optional "headers" argument: None, or a mapping
NoHeadersArg == [is_none |-> TRUE, map |-> EmptyHeaders]
HeadersArg(m) == [is_none |-> FALSE, map |-> m]

\* a payload is a str or a dict (its items, in order)
StrPayload(s) == [is_dict |-> FALSE, text |-> s, items |-> <<>>]
DictPayload(items) == [is_dict |-> TRUE, text |-> <<>>, items |-> items]

\* the printable ASCII characters, chr(32) to chr(126); the grave accent is
\* written as its escape, a TLA+ string cannot hold it
Ascii ==
    <<" ", "!", "\"", "#", "$", "%", "&", "'", "(", ")", "*", "+", ",",
      "-", ".", "/", "0", "1", "2", "3", "4", "5", "6", "7", "8", "9", ":",
      ";", "<", "=", ">", "?", "@", "A", "B", "C", "D", "E", "F", "G", "H",
      "I", "J", "K", "L", "M", "N", "O", "P", "Q", "R", "S", "T", "U", "V",
      "W", "X", "Y", "Z", "[", "\\", "]", "^", "_", "\\x60", "a", "b", "c",
      "d", "e", "f", "g", "h", "i", "j", "k", "l", "m", "n", "o", "p", "q",
      "r", "s", "t", "u", "v", "w", "x", "y", "z", "{", "|", "}", "~">>

PrintableAscii == {Ascii[i] : i \in DOMAIN Ascii}

Hex == <<"0", "1", "2", "3", "4", "5", "6", "7",
         "8", "9", "a", "b", "c", "d", "e", "f">>
Hex2(n) == Hex[(n \div 16) + 1] \o Hex[(n % 16) + 1]
Hex4(n) == Hex2(n \div 256) \o Hex2(n % 256)
Hex8(n) == Hex4(n \div 65536) \o Hex4(n % 65536)

\* chr(n): the atom of the character with code point n
chr(n) ==
    CASE n \in 32..126 -> Ascii[n - 31]
      [] n = 9 -> "\t"
      [] n = 10 -> "\n"
      [] n = 12 -> "\f"
      [] n = 13 -> "\r"
      [] n \in (0..31) \ {9, 10, 12, 13} -> "\\x" \o Hex2(n)
      [] n \in 127..255 -> "\\x" \o Hex2(n)
      [] n \in 256..65535 -> "\\u" \o Hex4(n)
      [] OTHER -> "\\U" \o Hex8(n)

\* ord(c): the code point of a one-character atom, -1 for a longer chunk
ord(c) ==
    IF c \in PrintableAscii THEN 31 + CHOOSE i \in DOMAIN Ascii : Ascii[i] = c
    ELSE IF c \in {"\t", "\n", "\f", "\r"}
    THEN CHOOSE n \in {9, 10, 12, 13} : c = chr(n)
    ELSE IF \E n \in 0..255 : c = "\\x" \o Hex2(n)
    THEN CHOOSE n \in 0..255 : c = "\\x" \o Hex2(n)
    ELSE IF \E n \in 0..65535 : c = "\\u" \o Hex4(n)
    THEN CHOOSE n \in 0..65535 : c = "\\u" \o Hex4(n)
    ELSE IF \E n \in 65536..1114111 : c = "\\U" \o Hex8(n)
    THEN CHOOSE n \in 65536..1114111 : c = "\\U" \o Hex8(n)
    ELSE -1

\* json.dumps (ensure_ascii) of the character with code point n: the quote,
\* the backslash and every character outside chr(32)..chr(126) are escaped,
\* a character beyond the basic plane as its surrogate pair
JsonEscapeCode(n) ==
    CASE n = 34 -> "\\\""
      [] n = 92 -> "\\\\"
      [] n = 8 -> "\\b"
      [] n = 9 -> "\\t"
      [] n = 10 -> "\\n"
      [] n = 12 -> "\\f"
      [] n = 13 -> "\\r"
      [] n \in (32..126) \ {34, 92} -> Ascii[n - 31]
      [] n \in (0..31) \ {8, 9, 10, 12, 13} -> "\\u" \o Hex4(n)
      [] n \in 127..65535 -> "\\u" \o Hex4(n)
      [] OTHER -> "\\u" \o Hex4(55296 + ((n - 65536) \div 1024))
                  \o "\\u" \o Hex4(56320 + ((n - 65536) % 1024))

\* the characters json.dumps (ensure_ascii) copies as they are
JsonPlain == PrintableAscii \ {"\"", "\\"}

\* json.dumps (ensure_ascii) of one character; a chunk of plain letters is
\* copied as it is
JsonEscapeChar(c) ==
    IF c \in JsonPlain THEN c
    ELSE LET n == ord(c)
         IN  IF n = -1 THEN c ELSE JsonEscapeCode(n)

\* json.dumps of a str: the escaped text between quotes
json_string(s) ==
    <<"\"">> \o [i \in DOMAIN s |-> JsonEscapeChar(s[i])] \o <<"\"">>

\* json.dumps of a flat dict of strings: {"k": "v", ...}
json_dumps(payload) ==
    StrPayload(<<"{">>
        \o join([i \in DOMAIN payload.items |->
                    json_string(payload.items[i][1]) \o <<":", " ">>
                    \o json_string(payload.items[i][2])], <<",", " ">>)
        \o <<"}">>)

\* dict2xml of one character of a value: the XML entities
XmlEscapeChar(c) ==
    CASE c = "&" -> "&amp;"
      [] c = "<" -> "&lt;"
      [] c = ">" -> "&gt;"
      [] OTHER -> c

\* dict2xml of a flat dict of strings: <k>v</k>, one element per line
dict2xml(payload) ==
    StrPayload(join([i \in DOMAIN payload.items |->
                    <<"<">> \o payload.items[i][1] \o <<">">>
                    \o [j \in DOMAIN payload.items[i][2] |->
                           XmlEscapeChar(payload.items[i][2][j])]
                    \o <<"</">> \o payload.items[i][1] \o <<">">>], <<"\n">>))

\* requests.codes
codes_ok == 200
codes_created == 201
codes_no_content == 204

\* what the transport answers: a response with a status code, or it raises
Response(c) == [raised |-> FALSE, status_code |-> c]
TransportFailure == [raised |-> TRUE, status_code |-> 0]

(***************************************************************************)
(* The inputs the model draws from.                                        *)
(***************************************************************************)
ConnectionInfos ==
    { [ip |-> <<"127", ".", "0", ".", "0", ".", "1">>,
       port |-> <<"8080">>, protocol |-> <<"http">>],
      [port |-> <<"8080">>],
      [sshtunnel |-> <<"jump-host">>,
       ip |-> <<"10", ".", "0", ".", "0", ".", "1">>] }

DefaultContentTypes == {json, xml}
ContentTypes == {None, json, <<"text/plain">>}

ApiUrls ==
    { <<"/", "api", "/", "running", "/", "devices", "/", "_operations",
        "/", "connect">> }

a_dict ==
    DictPayload(<< << <<"p", "a", "y", "l", "o", "a", "d">>,
                      <<"s", "o", "m", "e", "t", "h", "i", "n", "g">> >> >>)

Payloads ==
    { StrPayload(<<" ", "<", "config", "/", ">">>),
      a_dict }

HeaderArgs ==
    { NoHeadersArg,
      HeadersArg([EmptyHeaders EXCEPT !["X-Trace"] = <<"1">>,
                                      !["Accept"] = <<"application/json">>]) }

ExpectedArgs == { {codes_ok, 300} }
Statuses == {codes_ok, codes_created, 300}
Responses == {Response(c) : c \in Statuses} \cup {TransportFailure}
ProbeStatuses == {codes_ok, codes_created, codes_no_content, 404}
ProbeResponses == {Response(c) : c \in ProbeStatuses} \cup {TransportFailure}

\* the SSH tunnel collaborator: unicon cannot be imported, or auto_tunnel_add
\* gives no port, a local port, or raises AttributeError
TunnelResults ==
    { None, <<"40022">>, <<"AttributeError">>, <<"ImportError">> }
tunnel_ip == <<"127", ".", "0", ".", "0", ".", "1">>

\* no tunnel added yet, and the tunnel auto_tunnel_add leaves behind
NoTunnel == [tunnel_ip |-> None, tunnel_port |-> None]
auto_tunnel_add(tunnel, tunnel_port) ==
    IF tunnel_port \in {None, <<"AttributeError">>, <<"ImportError">>}
    THEN tunnel
    ELSE [tunnel_ip |-> tunnel_ip, tunnel_port |-> tunnel_port]

Threads == {"t1", "t2"}
NoThread == "none"

(***************************************************************************)
(* The client.                                                             *)
(***************************************************************************)
client_vars == <<connection_info, sshtunnel, _is_connected, content_type,
                 base_url, login_url, session, last_request, last>>
thread_vars == <<lock, pc, frame>>

NoSession == [exists |-> FALSE, auth |-> <<None, None>>,
              headers |-> EmptyHeaders, closed |-> FALSE]

NoArgs == [api_url |-> None, payload |-> StrPayload(None), content_type |-> None,
           headers |-> NoHeadersArg, expected_status_codes |-> {}]

NoRequest == [method |-> "none", url |-> None, headers |-> EmptyHeaders,
              body |-> StrPayload(None)]

\* the record of a finished public call: the state it was called in, what it
\* raised ("none": it returned), the transport calls it issued and the answer
Outcome(op, a, was_connected, error, sent, response) ==
    [op |-> op, args |-> a, connected |-> was_connected, error |-> error,
     sent |-> sent, response |-> response, replaced |-> EmptyHeaders]

\* the record of a connect that assigned self.session: it also keeps the header
\* map of the session it replaced (no key when there was none)
Replacing(outcome, old) == [outcome EXCEPT !.replaced = old.headers]

NoResponse == [raised |-> FALSE, status_code |-> 0]

\* what a helper has ready when it reaches the transport call
Prepared(error, method, api_url, body, content_type_header, accept_header) ==
    [error |-> error, method |-> method, api_url |-> api_url, body |-> body,
     content_type_header |-> content_type_header,
     accept_header |-> accept_header]

\* a thread's call: the method, its arguments, and once it got there the
\* locals it holds at the transport call and the header map it left
Frame(op, a, p, wrote) == [op |-> op, args |-> a, prepared |-> p, wrote |-> wrote]
NoPrepared == Prepared("none", "none", None, StrPayload(None), None, None)
NoFrame == Frame("none", NoArgs, NoPrepared, EmptyHeaders)

\* RestImplementation.connected
connected == _is_connected

\* rest.connector.utils.get_username_password(self)
get_username_password == << <<"admin">>, <<"admin">> >>

Init ==
    /\ connection_info \in ConnectionInfos
    /\ sshtunnel = NoTunnel
    /\ _is_connected = FALSE
    /\ content_type = None
    /\ base_url = None
    /\ login_url = None
    /\ session = NoSession
    /\ last_request = NoRequest
    /\ last = Outcome("none", NoArgs, FALSE, "none", 0, NoResponse)
    /\ lock = NoThread
    /\ pc = [t \in Threads |-> "idle"]
    /\ frame = [t \in Threads |-> NoFrame]

\* a resolution that falls back to the local host when the configuration
\* names neither 'host' nor 'ip'
resolve_target_default_host(info, port, tunnel_port) ==
    IF "sshtunnel" \in DOMAIN info
    THEN IF tunnel_port = <<"ImportError">>
         THEN [error |-> "ImportError", host |-> None, port |-> port]
         ELSE IF tunnel_port = <<"AttributeError">>
         THEN [error |-> "AttributeError", host |-> None, port |-> port]
         ELSE [error |-> "UnboundLocalError", host |-> None,
               port |-> IF tunnel_port # None THEN tunnel_port ELSE port]
    ELSE LET p == IF "port" \in DOMAIN info THEN info.port ELSE port
         IN  IF "host" \in DOMAIN info
             THEN [error |-> "none", host |-> info.host, port |-> p]
             ELSE IF "ip" \notin DOMAIN info
             THEN [error |-> "none", host |-> <<"localhost">>, port |-> p]
             ELSE IF IsIPv6(info.ip)
             THEN [error |-> "none",
                   host |-> <<"[">> \o exploded6(info.ip) \o <<"]">>, port |-> p]
             ELSE IF IsIPv4(info.ip)
             THEN [error |-> "none", host |-> info.ip, port |-> p]
             ELSE [error |-> "ValueError", host |-> None, port |-> port]

\* connect, lines 94-125: the host and the port of the target
resolve_target(info, port, tunnel_port) ==
    IF "sshtunnel" \in DOMAIN info
    THEN IF tunnel_port = <<"ImportError">>
         THEN [error |-> "ImportError", host |-> None, port |-> port]
         ELSE IF tunnel_port = <<"AttributeError">>
         THEN [error |-> "AttributeError", host |-> None, port |-> port]
         \* ip and port are assigned, host never is: line 130 reads it unbound
         ELSE [error |-> "UnboundLocalError", host |-> None,
               port |-> IF tunnel_port # None THEN tunnel_port ELSE port]
    ELSE LET p == IF "port" \in DOMAIN info THEN info.port ELSE port
         IN  IF "host" \in DOMAIN info
             THEN [error |-> "none", host |-> info.host, port |-> p]
             ELSE IF "ip" \notin DOMAIN info
             THEN [error |-> "KeyError", host |-> None, port |-> port]
             ELSE IF IsIPv6(info.ip)
             THEN [error |-> "none",
                   host |-> <<"[">> \o exploded6(info.ip) \o <<"]">>, port |-> p]
             ELSE IF IsIPv4(info.ip)
             THEN [error |-> "none", host |-> info.ip, port |-> p]
             ELSE [error |-> "ValueError", host |-> None, port |-> port]

\* a connect that takes any 2xx probe answer for success
probe_ok_any_2xx(response) == response.status_code \in 200..299

\* connect, lines 152-153: the probe's status is the expected one
probe_ok(response) == response.status_code = codes_ok

\* requests.Session(): a new session with the library's default headers
requests_Session == [exists |-> TRUE, auth |-> <<None, None>>,
                     headers |-> default_headers, closed |-> FALSE]

\* a connect that keeps the session object it finds, reopened
connect_session_reused(old) ==
    IF old.exists
    THEN [old EXCEPT !.auth = get_username_password, !.closed = FALSE]
    ELSE [exists |-> TRUE, auth |-> get_username_password,
          headers |-> default_headers, closed |-> FALSE]

\* a connect that forgets to give the new session the credentials
connect_session_without_auth(old) == requests_Session

\* connect, lines 141-142: self.session is a new session with the credentials,
\* whatever self.session was before
connect_session(old) ==
    [requests_Session EXCEPT !.auth = get_username_password]

\* connect, lines 90-163, entered with the state Disconnected
connect_disconnected(port, protocol, default_content_type, tunnel_port, response) ==
    LET a == [NoArgs EXCEPT !.content_type = default_content_type]
        t == resolve_target(connection_info, port, tunnel_port)
        proto == IF "protocol" \in DOMAIN connection_info
                 THEN connection_info.protocol ELSE protocol
        url == proto \o <<"://">> \o t.host \o <<":">> \o t.port
        fresh == connect_session(session)
    IN  /\ content_type' = default_content_type
        /\ IF t.error # "none"
           THEN /\ last' = Outcome("connect", a, connected, t.error, 0, NoResponse)
                /\ last_request' = NoRequest
                /\ UNCHANGED <<_is_connected, base_url, login_url, session>>
           ELSE /\ base_url' = url
                /\ login_url' = url \o <<"/", "api">>
                /\ session' = fresh
                /\ last_request' = [method |-> "GET", url |-> login_url',
                                    headers |-> fresh.headers,
                                    body |-> StrPayload(None)]
                /\ IF response.raised
                   THEN /\ last' = Replacing(Outcome("connect", a, connected,
                                                     "ConnectionError", 1,
                                                     response), session)
                        /\ UNCHANGED _is_connected
                   ELSE IF ~probe_ok(response)
                   THEN /\ last' = Replacing(Outcome("connect", a, connected,
                                                     "RequestException", 1,
                                                     response), session)
                        /\ UNCHANGED _is_connected
                   ELSE /\ last' = Replacing(Outcome("connect", a, connected,
                                                     "none", 1, response),
                                             session)
                        /\ _is_connected' = TRUE
        /\ sshtunnel' = IF "sshtunnel" \in DOMAIN connection_info
                        THEN auto_tunnel_add(sshtunnel, tunnel_port)
                        ELSE sshtunnel
        /\ UNCHANGED connection_info

\* connect, lines 87-88: nothing is done when already connected
connect_connected(default_content_type) ==
    /\ last' = Outcome("connect",
                       [NoArgs EXCEPT !.content_type = default_content_type],
                       connected, "none", 0, NoResponse)
    /\ last_request' = NoRequest
    /\ UNCHANGED <<connection_info, sshtunnel, _is_connected, content_type,
                   base_url, login_url, session>>

\* a connect without the early return of lines 87-88
connect_again(port, protocol, default_content_type, tunnel_port, response) ==
    connect_disconnected(port, protocol, default_content_type, tunnel_port,
                         response)

\* Implementation.connect
connect(port, protocol, default_content_type, tunnel_port, response) ==
    IF connected
    THEN connect_connected(default_content_type)
    ELSE connect_disconnected(port, protocol, default_content_type, tunnel_port,
                              response)

\* a disconnect that clears the flag after close() instead of in a finally
after_close_is_connected(close_raised) ==
    IF close_raised THEN _is_connected ELSE FALSE

\* disconnect, lines 174-175: the finally clause, whether close() raised or not
finally_is_connected(close_raised) == FALSE

\* Implementation.disconnect
disconnect(close_raises) ==
    LET error == IF ~session.exists THEN "AttributeError"
                 ELSE IF close_raises THEN "CloseError" ELSE "none"
    IN  /\ session' = IF error = "none" THEN [session EXCEPT !.closed = TRUE]
                      ELSE session
        /\ _is_connected' = finally_is_connected(error # "none")
        /\ last' = Outcome("disconnect", NoArgs, connected, error, 0, NoResponse)
        /\ last_request' = NoRequest
        /\ UNCHANGED <<connection_info, sshtunnel, content_type, base_url,
                     login_url>>

(***************************************************************************)
(* The request helpers.                                                    *)
(***************************************************************************)
\* a get whose default was copied from post: 201 accepted too
get_expected_as_post == {codes_created, codes_no_content, codes_ok}

\* the default expected_status_codes of get, and of post/patch/put/delete
get_expected_status_codes == {codes_no_content, codes_ok}
post_expected_status_codes == {codes_created, codes_no_content, codes_ok}
patch_expected_status_codes == {codes_created, codes_no_content, codes_ok}
put_expected_status_codes == {codes_created, codes_no_content, codes_ok}
delete_expected_status_codes == {codes_created, codes_no_content, codes_ok}

default_expected_status_codes(op) ==
    CASE op = "get" -> get_expected_status_codes
      [] op = "post" -> post_expected_status_codes
      [] op = "patch" -> patch_expected_status_codes
      [] op = "put" -> put_expected_status_codes
      [] op = "delete" -> delete_expected_status_codes

\* the Accept template of get, post, patch and put
accept_template ==
    <<"application/vnd.yang.data+", "{fmt}",
      ", application/vnd.yang.collection+", "{fmt}",
      ", application/vnd.yang.datastore+", "{fmt}">>

data_template == <<"application/vnd.yang.data+", "{fmt}">>
datastore_template == <<"application/vnd.yang.datastore+", "{fmt}">>
operation_template == <<"application/vnd.yang.operation+", "{fmt}">>

\* a header value computed, or the error raised while computing it
Header(error, value) == [error |-> error, value |-> value]

\* get, lines 207-216; None has no lower(): AttributeError
get_accept_header(ct) ==
    IF ct = None THEN Header("AttributeError", None)
    ELSE IF lower(ct) = json THEN Header("none", format(accept_template, json))
    ELSE IF lower(ct) = xml THEN Header("none", format(accept_template, xml))
    ELSE Header("none", ct)

\* delete, lines 564-569; None has no lower(): AttributeError
delete_accept_header(ct) ==
    IF ct = None THEN Header("AttributeError", None)
    ELSE IF lower(ct) = json
    THEN Header("none", <<"application/vnd.yang.data+", "j", "s", "o", "n">>)
    ELSE IF lower(ct) = xml
    THEN Header("none", <<"application/vnd.yang.data+", "x", "m", "l">>)
    ELSE Header("none", ct)

\* an assert that lets the client-level default stand in for the argument
dict_without_any_content_type(payload, ct) ==
    payload.is_dict /\ ct = None /\ content_type = None

\* post/patch/put: a dict payload needs a content type (the assert)
dict_without_content_type(payload, ct) == payload.is_dict /\ ct = None

\* post/patch/put: request_payload, the dict serialized for 'json' or 'xml'
request_payload(payload, ct) ==
    IF payload.is_dict
    THEN IF ct = json THEN json_dumps(payload)
         ELSE IF ct = xml THEN dict2xml(payload)
         ELSE payload
    ELSE payload

\* a sniff that looks at the payload's first character, whitespace or not
sniffed_without_lstrip(payload, ct) ==
    IF ct # None THEN Header("none", ct)
    ELSE IF payload = StrPayload(None) THEN Header("AttributeError", None)
    ELSE IF match_lt(payload.text) THEN Header("none", xml)
    ELSE Header("none", json)

\* post/patch/put: the content type, sniffed from the payload when not given;
\* a None payload has no lstrip(): AttributeError
sniffed_content_type(payload, ct) ==
    IF ct # None THEN Header("none", ct)
    ELSE IF payload = StrPayload(None) THEN Header("AttributeError", None)
    ELSE IF match_lt(lstrip(payload.text)) THEN Header("none", xml)
    ELSE Header("none", json)

\* a post that uses the data media type whatever the URL, as patch and put do
post_content_type_always_data(api_url) == data_template

\* post, lines 298-305: the Content-type template follows the URL
post_content_type_template(api_url) ==
    IF contains(api_url, <<"/", "_operations">>) THEN operation_template
    ELSE IF contains(api_url, <<"/", "api", "/">>) THEN datastore_template
    ELSE data_template

\* a negotiation that compares the content type as it was given
negotiated_case_sensitive(ct, content_type_template) ==
    IF ct = json
    THEN [content_type_header |-> format(content_type_template, json),
          accept_header |-> format(accept_template, json)]
    ELSE IF ct = xml
    THEN [content_type_header |-> format(content_type_template, xml),
          accept_header |-> format(accept_template, xml)]
    ELSE [content_type_header |-> ct, accept_header |-> ct]

\* post/patch/put: the two negotiated headers
negotiated(ct, content_type_template) ==
    IF lower(ct) = json
    THEN [content_type_header |-> format(content_type_template, json),
          accept_header |-> format(accept_template, json)]
    ELSE IF lower(ct) = xml
    THEN [content_type_header |-> format(content_type_template, xml),
          accept_header |-> format(accept_template, xml)]
    ELSE [content_type_header |-> ct, accept_header |-> ct]

\* header updates in the other order: the caller's first, then the negotiated
caller_headers_first(h, content_type_header, accept_header, headers) ==
    LET h0 == IF headers.is_none THEN h ELSE update(h, headers.map)
        h1 == IF content_type_header = None THEN h0
              ELSE update(h0, [EmptyHeaders EXCEPT
                                  !["Content-type"] = content_type_header])
    IN  update(h1, [EmptyHeaders EXCEPT !["Accept"] = accept_header])

\* self.session.headers after the call's updates: the negotiated headers
\* (Content-type only when the verb sets one), then the caller's
updated_headers(h, content_type_header, accept_header, headers) ==
    LET h1 == IF content_type_header = None THEN h
              ELSE update(h, [EmptyHeaders EXCEPT
                                 !["Content-type"] = content_type_header])
        h2 == update(h1, [EmptyHeaders EXCEPT !["Accept"] = accept_header])
    IN  IF headers.is_none THEN h2 ELSE update(h2, headers.map)

\* get, lines 202-218
get_prepare(a) ==
    LET ct == IF a.content_type = None THEN content_type ELSE a.content_type
        h == get_accept_header(ct)
    IN  Prepared(h.error, "GET", a.api_url, StrPayload(None), None, h.value)

\* delete, lines 559-571
delete_prepare(a) ==
    LET ct == IF a.content_type = None THEN content_type ELSE a.content_type
        h == delete_accept_header(ct)
    IN  Prepared(h.error, "DELETE", a.api_url, StrPayload(None), None, h.value)

\* post, lines 273-322
post_prepare(a) ==
    IF dict_without_content_type(a.payload, a.content_type)
    THEN Prepared("AssertionError", "POST", a.api_url, a.payload, None, None)
    ELSE LET ct == sniffed_content_type(a.payload, a.content_type)
             n == negotiated(ct.value, post_content_type_template(a.api_url))
         IN  IF ct.error # "none"
             THEN Prepared(ct.error, "POST", a.api_url, a.payload, None, None)
             ELSE Prepared("none", "POST", a.api_url,
                           request_payload(a.payload, a.content_type),
                           n.content_type_header, n.accept_header)

\* patch, lines 380-412
patch_prepare(a) ==
    IF dict_without_content_type(a.payload, a.content_type)
    THEN Prepared("AssertionError", "PATCH", a.api_url, a.payload, None, None)
    ELSE LET ct == sniffed_content_type(a.payload, a.content_type)
             n == negotiated(ct.value, data_template)
         IN  IF ct.error # "none"
             THEN Prepared(ct.error, "PATCH", a.api_url, a.payload, None, None)
             ELSE Prepared("none", "PATCH", a.api_url,
                           request_payload(a.payload, a.content_type),
                           n.content_type_header, n.accept_header)

\* put, lines 470-502
put_prepare(a) ==
    IF dict_without_content_type(a.payload, a.content_type)
    THEN Prepared("AssertionError", "PUT", a.api_url, a.payload, None, None)
    ELSE LET ct == sniffed_content_type(a.payload, a.content_type)
             n == negotiated(ct.value, data_template)
         IN  IF ct.error # "none"
             THEN Prepared(ct.error, "PUT", a.api_url, a.payload, None, None)
             ELSE Prepared("none", "PUT", a.api_url,
                           request_payload(a.payload, a.content_type),
                           n.content_type_header, n.accept_header)

prepare(op, a) ==
    CASE op = "get" -> get_prepare(a)
      [] op = "post" -> post_prepare(a)
      [] op = "patch" -> patch_prepare(a)
      [] op = "put" -> put_prepare(a)
      [] op = "delete" -> delete_prepare(a)

\* a status check that accepts every code below 400
status_below_400(response, expected_status_codes) ==
    response.status_code < 400

\* the status check that ends every helper
status_expected(response, expected_status_codes) ==
    response.status_code \in expected_status_codes

\* the error a helper ends with once the transport has answered
checked(response, expected_status_codes) ==
    IF response.raised THEN "ConnectionError"
    ELSE IF ~status_expected(response, expected_status_codes)
    THEN "RequestException"
    ELSE "none"

\* a helper called while the state is Disconnected: it raises at once, having
\* read none of its arguments (the outcome records none)
raise_not_connected(op, a) ==
    /\ last' = Outcome(op, NoArgs, connected, "Exception", 0, NoResponse)
    /\ last_request' = NoRequest
    /\ UNCHANGED <<connection_info, sshtunnel, _is_connected, content_type,
                   base_url, login_url, session>>

\* a helper that raises before it touches the session
raise_unsent(op, a, error) ==
    /\ last' = Outcome(op, a, connected, error, 0, NoResponse)
    /\ last_request' = NoRequest
    /\ UNCHANGED <<connection_info, sshtunnel, _is_connected, content_type,
                   base_url, login_url, session>>

\* a helper that drops the connection when the call fails
is_connected_unless_failed(error) ==
    IF error = "none" THEN _is_connected ELSE FALSE

\* the helpers never assign self._is_connected, whatever the call's outcome
is_connected_after_request(error) == _is_connected

\* a transport call that is made a second time when the first one failed
transport_with_retry(op, a, p, h, response) ==
    /\ last_request' = [method |-> p.method, url |-> base_url \o p.api_url,
                        headers |-> h, body |-> p.body]
    /\ last' = Outcome(op, a, connected,
                       checked(response, a.expected_status_codes),
                       IF checked(response, a.expected_status_codes) = "none"
                       THEN 1 ELSE 2,
                       response)
    /\ _is_connected' = is_connected_after_request(
                            checked(response, a.expected_status_codes))
    /\ UNCHANGED <<connection_info, sshtunnel, content_type, base_url,
                   login_url>>

\* the transport call, made with the session's headers h, and the status check
transport(op, a, p, h, response) ==
    /\ last_request' = [method |-> p.method, url |-> base_url \o p.api_url,
                        headers |-> h, body |-> p.body]
    /\ last' = Outcome(op, a, connected,
                       checked(response, a.expected_status_codes), 1, response)
    /\ _is_connected' = is_connected_after_request(
                            checked(response, a.expected_status_codes))
    /\ UNCHANGED <<connection_info, sshtunnel, content_type, base_url,
                     login_url>>

\* the session's header updates, then the transport call
send(op, a, p, response) ==
    LET h == updated_headers(session.headers, p.content_type_header,
                             p.accept_header, a.headers)
    IN  /\ session' = [session EXCEPT !.headers = h]
        /\ transport(op, a, p, h, response)

\* a helper called while the state is Connected
request_connected(op, a, response) ==
    LET p == prepare(op, a)
    IN  IF p.error # "none" THEN raise_unsent(op, a, p.error)
        ELSE send(op, a, p, response)

\* a get without the check of lines 198-201
get_unchecked(a, response) == request_connected("get", a, response)

\* Implementation.get
get(a, response) ==
    IF ~connected THEN raise_not_connected("get", a)
    ELSE request_connected("get", a, response)

\* Implementation.post
post(a, response) ==
    IF ~connected THEN raise_not_connected("post", a)
    ELSE request_connected("post", a, response)

\* Implementation.patch
patch(a, response) ==
    IF ~connected THEN raise_not_connected("patch", a)
    ELSE request_connected("patch", a, response)

\* Implementation.put
put(a, response) ==
    IF ~connected THEN raise_not_connected("put", a)
    ELSE request_connected("put", a, response)

\* Implementation.delete
delete(a, response) ==
    IF ~connected THEN raise_not_connected("delete", a)
    ELSE request_connected("delete", a, response)

(***************************************************************************)
(* One caller: every public call runs to its end before the next starts.   *)
(***************************************************************************)
\* the arguments of get and delete (no payload)
ReadArgs(op) ==
    { [api_url |-> u, payload |-> StrPayload(None), content_type |-> ct,
       headers |-> h, expected_status_codes |-> e] :
        u \in ApiUrls, ct \in ContentTypes, h \in HeaderArgs,
        e \in {default_expected_status_codes(op)} \cup ExpectedArgs }

\* the arguments of post, patch and put
WriteArgs(op) ==
    { [api_url |-> u, payload |-> p, content_type |-> ct,
       headers |-> h, expected_status_codes |-> e] :
        u \in ApiUrls, p \in Payloads, ct \in ContentTypes, h \in HeaderArgs,
        e \in {default_expected_status_codes(op)} \cup ExpectedArgs }

Connect ==
    /\ \E d \in DefaultContentTypes, tp \in TunnelResults, r \in ProbeResponses :
          connect(<<"8080">>, <<"http">>, d, tp, r)
    /\ UNCHANGED thread_vars

Disconnect ==
    /\ \E close_raises \in BOOLEAN : disconnect(close_raises)
    /\ UNCHANGED thread_vars

Get ==
    /\ \E a \in ReadArgs("get"), r \in Responses : get(a, r)
    /\ UNCHANGED thread_vars

Post ==
    /\ \E a \in WriteArgs("post"), r \in Responses : post(a, r)
    /\ UNCHANGED thread_vars

Patch ==
    /\ \E a \in WriteArgs("patch"), r \in Responses : patch(a, r)
    /\ UNCHANGED thread_vars

Put ==
    /\ \E a \in WriteArgs("put"), r \in Responses : put(a, r)
    /\ UNCHANGED thread_vars

Delete ==
    /\ \E a \in ReadArgs("delete"), r \in Responses : delete(a, r)
    /\ UNCHANGED thread_vars

Next == Connect \/ Disconnect \/ Get \/ Post \/ Patch \/ Put \/ Delete

Spec == Init /\ [][Next]_vars

(***************************************************************************)
(* Header negotiation and payload handling over a wider range of           *)
(* arguments: the first request of a freshly connected client.             *)
(***************************************************************************)
WideContentTypes ==
    {None, json, xml, <<"J", "S", "O", "N">>, <<"X", "m", "l">>,
     <<"text/plain">>}

WideApiUrls ==
    { <<"/", "api", "/", "running", "/", "devices">>,
      <<"/", "api", "/", "running", "/", "devices", "/", "_operations",
        "/", "connect">>,
      <<"/", "restconf", "/", "data">> }

WidePayloads ==
    { StrPayload(<<>>),
      StrPayload(<<"<", "config", "/", ">">>),
      StrPayload(<<" ", "\n", "<", "config", "/", ">">>),
      StrPayload(<<"{", "}">>),
      StrPayload(<<"\r", "<", "a", "/", ">">>),
      StrPayload(None),
      a_dict,
      DictPayload(<< << <<"a">>,
                        <<"\"", "h", "i", "\"", " ", "<", "&", "\\xe9",
                          "\\x08">> >> >>) }

\* the caller's headers: none, a trace header with an Accept, a Content-type
WideHeaderArgs ==
    HeaderArgs
    \cup { HeadersArg([EmptyHeaders EXCEPT
                          !["Content-type"] = <<"text/plain">>]) }

WideReadArgs(op) ==
    { [api_url |-> u, payload |-> StrPayload(None), content_type |-> ct,
       headers |-> h,
       expected_status_codes |-> default_expected_status_codes(op)] :
        u \in WideApiUrls, ct \in WideContentTypes, h \in WideHeaderArgs }

WideWriteArgs(op) ==
    { [api_url |-> u, payload |-> p, content_type |-> ct, headers |-> h,
       expected_status_codes |-> default_expected_status_codes(op)] :
        u \in WideApiUrls, p \in WidePayloads, ct \in WideContentTypes,
        h \in WideHeaderArgs }

\* connect's default_content_type: json, xml, or None given by the caller
WideDefaultContentTypes == DefaultContentTypes \cup {None}

ConnectWideDefault ==
    /\ \E d \in WideDefaultContentTypes, tp \in TunnelResults,
          r \in ProbeResponses :
          connect(<<"8080">>, <<"http">>, d, tp, r)
    /\ UNCHANGED thread_vars

\* the client has just been connected and has sent nothing but the probe
first_call == last.op = "connect" /\ ~last.connected /\ _is_connected

NegotiateGet ==
    /\ first_call
    /\ \E a \in WideReadArgs("get") : get(a, Response(codes_ok))
    /\ UNCHANGED thread_vars

NegotiatePost ==
    /\ first_call
    /\ \E a \in WideWriteArgs("post") : post(a, Response(codes_ok))
    /\ UNCHANGED thread_vars

NegotiatePatch ==
    /\ first_call
    /\ \E a \in WideWriteArgs("patch") : patch(a, Response(codes_ok))
    /\ UNCHANGED thread_vars

NegotiatePut ==
    /\ first_call
    /\ \E a \in WideWriteArgs("put") : put(a, Response(codes_ok))
    /\ UNCHANGED thread_vars

NegotiateDelete ==
    /\ first_call
    /\ \E a \in WideReadArgs("delete") : delete(a, Response(codes_ok))
    /\ UNCHANGED thread_vars

NextNegotiate ==
    \/ ConnectWideDefault
    \/ NegotiateGet
    \/ NegotiatePost
    \/ NegotiatePatch
    \/ NegotiatePut
    \/ NegotiateDelete

SpecNegotiate == Init /\ [][NextNegotiate]_vars

(***************************************************************************)
(* connect and disconnect over a wider range of configured connections:    *)
(* IPv4 and IPv6 addresses, a host name, neither, an SSH tunnel.           *)
(***************************************************************************)
ipv6_loopback == <<"::", "1">>

WideConnectionInfos ==
    ConnectionInfos
    \cup
    { [ip |-> ipv6_loopback, port |-> <<"8080">>, protocol |-> <<"http">>],
      [ip |-> ipv6_loopback],
      [ip |-> <<"f", "e", "8", "0", "::", "a", "b", ":", "1">>,
       port |-> <<"443">>],
      [ip |-> <<"2", "0", "0", "1", ":", "d", "b", "8", ":", "0", ":", "0", ":",
                "0", ":", "0", ":", "0", ":", "1">>],
      [host |-> <<"nso.example.com">>,
       ip |-> <<"10", ".", "0", ".", "0", ".", "1">>],
      [ip |-> <<"192", ".", "168", ".", "0", ".", "1">>,
       port |-> <<"443">>, protocol |-> <<"https">>],
      [protocol |-> <<"https">>],
      [ip |-> <<"not-an-ip">>],
      [sshtunnel |-> <<"jump-host">>, host |-> <<"nso.example.com">>,
       port |-> <<"8080">>, protocol |-> <<"https">>] }

Ports == { <<"8080">>, <<"443">> }
Protocols == { <<"http">>, <<"https">> }

InitConnect ==
    /\ connection_info \in WideConnectionInfos
    /\ sshtunnel = NoTunnel
    /\ _is_connected = FALSE
    /\ content_type = None
    /\ base_url = None
    /\ login_url = None
    /\ session = NoSession
    /\ last_request = NoRequest
    /\ last = Outcome("none", NoArgs, FALSE, "none", 0, NoResponse)
    /\ lock = NoThread
    /\ pc = [t \in Threads |-> "idle"]
    /\ frame = [t \in Threads |-> NoFrame]

ConnectWide ==
    /\ \E port \in Ports, protocol \in Protocols, d \in DefaultContentTypes,
          tp \in TunnelResults, r \in ProbeResponses :
          connect(port, protocol, d, tp, r)
    /\ UNCHANGED thread_vars

NextConnect == ConnectWide \/ Disconnect

SpecConnect == InitConnect /\ [][NextConnect]_vars

(***************************************************************************)
(* Two callers.  BaseConnection.locked wraps every public method: a call   *)
(* takes the connection's lock, runs, and gives the lock back however it   *)
(* ends.  A helper's run is two steps here, the session's header updates   *)
(* and the transport call, so that what the lock keeps apart can be seen.  *)
(***************************************************************************)
ThreadCalls ==
    { [op |-> "connect", args |-> [NoArgs EXCEPT !.content_type = json]],
      [op |-> "disconnect", args |-> NoArgs] }
    \cup
    { [op |-> c[1],
       args |-> [api_url |-> <<"/", "restconf", "/", "data">>,
                 payload |-> c[2], content_type |-> c[3], headers |-> c[4],
                 expected_status_codes |-> default_expected_status_codes(c[1])]]
      : c \in { <<"get", StrPayload(None), None,
                  HeadersArg([EmptyHeaders EXCEPT !["X-Trace"] = <<"1">>])>>,
                <<"post", StrPayload(<<"<", "config", "/", ">">>), None,
                  NoHeadersArg>>,
                <<"put", a_dict, json, NoHeadersArg>>,
                <<"patch", StrPayload(<<"{", "}">>), None,
                  HeadersArg([EmptyHeaders EXCEPT !["X-Trace"] = <<"2">>])>>,
                <<"delete", StrPayload(None), <<"text/plain">>,
                  NoHeadersArg>> } }

ThreadResponses == {Response(codes_ok), Response(404)}

\* a lock that lets every caller in
locked_acquire_always(t) == TRUE

\* BaseConnection.locked: the lock is free, or this thread holds it already
locked_acquire(t) == lock = NoThread \/ lock = t

\* BaseConnection.locked: the lock is given back when the method ends,
\* by a return or by a raise; the call's locals are gone
locked_release(t) ==
    /\ lock' = NoThread
    /\ pc' = [pc EXCEPT ![t] = "idle"]
    /\ frame' = [frame EXCEPT ![t] = NoFrame]

\* a thread calls a public method and waits for the lock
Call(t) ==
    /\ pc[t] = "idle"
    /\ \E c \in ThreadCalls :
          frame' = [frame EXCEPT ![t] = Frame(c.op, c.args, NoPrepared,
                                              EmptyHeaders)]
    /\ pc' = [pc EXCEPT ![t] = "waiting"]
    /\ UNCHANGED <<client_vars, lock>>

\* the thread gets the lock and enters the method
Acquire(t) ==
    /\ pc[t] = "waiting"
    /\ locked_acquire(t)
    /\ lock' = t
    /\ pc' = [pc EXCEPT ![t] = "entered"]
    /\ UNCHANGED <<client_vars, frame>>

RunConnect(t) ==
    /\ pc[t] = "entered" /\ frame[t].op = "connect"
    /\ \E r \in ThreadResponses :
          connect(<<"8080">>, <<"http">>, frame[t].args.content_type, None, r)
    /\ locked_release(t)

RunDisconnect(t) ==
    /\ pc[t] = "entered" /\ frame[t].op = "disconnect"
    /\ disconnect(FALSE)
    /\ locked_release(t)

\* a helper up to its session.headers.update calls
UpdateHeaders(t) ==
    LET op == frame[t].op
        a == frame[t].args
        p == prepare(op, a)
        h == updated_headers(session.headers, p.content_type_header,
                             p.accept_header, a.headers)
    IN  /\ pc[t] = "entered" /\ op \in {"get", "post", "put", "patch", "delete"}
        /\ IF ~connected
           THEN raise_not_connected(op, a) /\ locked_release(t)
           ELSE IF p.error # "none"
           THEN raise_unsent(op, a, p.error) /\ locked_release(t)
           ELSE /\ session' = [session EXCEPT !.headers = h]
                /\ frame' = [frame EXCEPT ![t] = Frame(op, a, p, h)]
                /\ pc' = [pc EXCEPT ![t] = "updated"]
                /\ UNCHANGED <<connection_info, sshtunnel, _is_connected,
                               content_type,
                               base_url, login_url, last_request, last, lock>>

\* the helper's transport call, which sends the session's headers as they
\* are now, and its status check
Transport(t) ==
    /\ pc[t] = "updated"
    /\ \E r \in ThreadResponses :
          transport(frame[t].op, frame[t].args, frame[t].prepared,
                    session.headers, r)
    /\ locked_release(t)
    /\ UNCHANGED session

NextThreads ==
    \E t \in Threads :
        \/ Call(t)
        \/ Acquire(t)
        \/ RunConnect(t)
        \/ RunDisconnect(t)
        \/ UpdateHeaders(t)
        \/ Transport(t)

SpecThreads == Init /\ [][NextThreads]_vars

(***************************************************************************)
(* Properties of the connection life cycle and of the request helpers.     *)
(***************************************************************************)
Verbs == {"get", "post", "put", "patch", "delete"}

\* C1: a get, post, put, patch or delete called while the state is
\* Disconnected raises the not-connected error and issues no transport call.
C1_NotConnectedFailsFast ==
    (last.op \in Verbs /\ ~last.connected)
        => /\ last.error = "Exception"
           /\ last.sent = 0
           /\ last_request = NoRequest

\* a delete refused after a disconnect closed the session
C1_Witness ==
    /\ last.op = "delete"
    /\ ~last.connected
    /\ session.exists /\ session.closed

\* C2: a connect made while the state is Connected returns at once: the state
\* stays Connected, no probe is issued, the session is left as it was.
C2_ConnectTwiceIsNoOp ==
    [][(_is_connected /\ last'.op = "connect")
          => /\ _is_connected'
             /\ last'.error = "none" /\ last'.sent = 0
             /\ last_request' = NoRequest
             /\ session' = session]_vars

\* a connect that found the client connected
C2_Witness == last.op = "connect" /\ last.connected /\ _is_connected

\* C3: a connect from Disconnected ends Connected exactly when the probe was
\* answered with 200; every other answer raises and leaves it Disconnected.
C3_ConnectOnlyOn200 ==
    (last.op = "connect" /\ ~last.connected)
        => /\ _is_connected <=> (/\ last.sent = 1
                                 /\ ~last.response.raised
                                 /\ last.response.status_code = 200)
           /\ _is_connected <=> (last.error = "none")
           /\ (last.sent = 1 /\ ~last.response.raised
                 /\ last.response.status_code # 200)
                 => last.error = "RequestException"

\* a probe answered 201 left the client Disconnected
C3_Witness ==
    /\ last.op = "connect" /\ ~last.connected
    /\ last.sent = 1 /\ last.response = Response(201)
    /\ last.error = "RequestException" /\ ~_is_connected

\* C4: after a disconnect the state is Disconnected, whatever the state before
\* and whether or not closing the session raised.
C4_DisconnectAlwaysDisconnects ==
    (last.op = "disconnect") => ~_is_connected

\* a disconnect of a connected client whose session failed to close
C4_Witness ==
    /\ last.op = "disconnect" /\ last.connected
    /\ last.error = "CloseError" /\ ~_is_connected

\* C5: only connect and disconnect change the connection state, a request
\* helper never does, and a failed connect leaves the state Disconnected.
C5_StateChangesOnlyByConnectDisconnect ==
    [][/\ (_is_connected' # _is_connected)
            => last'.op \in {"connect", "disconnect"}
       /\ (last'.op \in Verbs) => (_is_connected' = _is_connected)
       /\ (last'.op = "connect" /\ last'.error # "none") => ~_is_connected'
      ]_vars

\* a post that failed the status check left the client Connected
C5_Witness ==
    /\ last.op = "post" /\ last.connected
    /\ last.error = "RequestException" /\ _is_connected

\* C6: a helper whose request was answered returns exactly when the status
\* code is one of the call's expected_status_codes, and raises otherwise.
C6_StatusValidation ==
    (last.op \in Verbs /\ last.sent = 1 /\ ~last.response.raised)
        => /\ (last.error = "none")
              <=> (last.response.status_code
                     \in last.args.expected_status_codes)
           /\ last.error \in {"none", "RequestException"}

\* a get answered 300 returned, the caller expecting (200, 300)
C6_Witness ==
    /\ last.op = "get" /\ last.sent = 1
    /\ last.response = Response(300)
    /\ last.args.expected_status_codes = {200, 300}
    /\ last.error = "none"

\* C7: post, put and patch called while Connected with a dict payload and no
\* content_type raise before any request is sent, whatever the client default.
C7_DictNeedsContentType ==
    (/\ last.op \in {"post", "put", "patch"}
     /\ last.connected
     /\ last.args.payload.is_dict
     /\ last.args.content_type = None)
        => /\ last.error = "AssertionError"
           /\ last.sent = 0
           /\ last_request = NoRequest

\* a patch of a dict without content_type, the client default being xml
C7_Witness ==
    /\ last.op = "patch" /\ last.connected
    /\ last.args.payload.is_dict /\ last.args.content_type = None
    /\ content_type = xml
    /\ last.error = "AssertionError"

\* C8: the public calls of one client run one at a time under the
\* connection's lock, and the headers a helper sends are the ones it wrote.
C8_CallsSerialize ==
    /\ [](\A t \in Threads :
            pc[t] \in {"entered", "updated"}
                => /\ lock = t
                   /\ \A u \in Threads \ {t} : pc[u] \in {"idle", "waiting"})
    /\ [](\A t \in Threads :
            pc[t] = "updated" => session.headers = frame[t].wrote)
    /\ [][\A t \in Threads :
            (pc[t] = "updated" /\ pc'[t] = "idle")
                => last_request'.headers = frame[t].wrote]_vars

\* one thread between its header update and its send, the other waiting for
\* the lock with a call that would write other headers
C8_Witness ==
    /\ pc["t1"] = "updated" /\ frame["t1"].op = "get"
    /\ pc["t2"] = "waiting" /\ frame["t2"].op = "patch"

\* the headers a call would send if its map were built afresh: the negotiated
\* headers and the caller's, merged over the session's defaults
HeadersBuiltFresh(op, a) ==
    LET p == prepare(op, a)
    IN  updated_headers(default_headers, p.content_type_header,
                        p.accept_header, a.headers)

\* C9: the headers a helper sends are built afresh for the call, from its
\* arguments and the client's base map alone; a header given to one call is
\* not sent by a later call that does not give it.
C9_HeadersBuiltFresh ==
    (last.op \in Verbs /\ last.sent = 1)
        => /\ last_request.headers = HeadersBuiltFresh(last.op, last.args)
           /\ last.args.headers.is_none
                => last_request.headers["X-Trace"] = None

\* the content type a call resolves to: the argument; without it the client
\* default (get, delete) or the payload's look (post, put, patch)
ResolvedContentType(op, a) ==
    IF a.content_type # None THEN a.content_type
    ELSE IF op \in {"get", "delete"} THEN content_type
    ELSE IF match_lt(lstrip(a.payload.text)) THEN xml
    ELSE json

\* json or xml when the content type is one of them in any case, else None
ResolvedFormat(op, a) ==
    LET ct == lower(ResolvedContentType(op, a))
    IN  IF ct = <<"j", "s", "o", "n">> THEN <<"j", "s", "o", "n">>
        ELSE IF ct = <<"x", "m", "l">> THEN <<"x", "m", "l">>
        ELSE None

ThreeMediaTypes(f) ==
    <<"application/vnd.yang.data+">> \o f
    \o <<", application/vnd.yang.collection+">> \o f
    \o <<", application/vnd.yang.datastore+">> \o f

\* a request whose Accept header is the negotiated one: the content type
\* resolved to json or xml and the caller gave no Accept of its own
NegotiatedAcceptSent ==
    /\ last.op \in Verbs /\ last.sent = 1
    /\ ResolvedFormat(last.op, last.args) # None
    /\ last.args.headers.map["Accept"] = None

\* C10 as stated: every verb, delete included, advertises the three media
\* types data, collection and datastore in the resolved format.
C10_AcceptThreeTypesEveryVerb ==
    NegotiatedAcceptSent
        => last_request.headers["Accept"]
             = ThreeMediaTypes(ResolvedFormat(last.op, last.args))

\* C10 (amended): get, post, put and patch advertise the three media types
\* data, collection and datastore in the resolved format (json or xml, in any
\* case); delete advertises application/vnd.yang.data+F alone.
C10_AcceptThreeTypesExceptDelete ==
    NegotiatedAcceptSent
        => last_request.headers["Accept"]
             = IF last.op = "delete"
               THEN <<"application/vnd.yang.data+">>
                    \o ResolvedFormat(last.op, last.args)
               ELSE ThreeMediaTypes(ResolvedFormat(last.op, last.args))

\* a delete with content type 'JSON' and no Accept of the caller's
C10_Witness ==
    /\ NegotiatedAcceptSent
    /\ last.op = "delete"
    /\ last.args.content_type = <<"J", "S", "O", "N">>
    /\ last_request.headers["Accept"]
         = <<"application/vnd.yang.data+", "j", "s", "o", "n">>

\* a post, put or patch whose Content-type header is the negotiated one: the
\* content type resolved to json or xml and the caller gave no Content-type
NegotiatedContentTypeSent ==
    /\ last.op \in {"post", "put", "patch"} /\ last.sent = 1
    /\ ResolvedFormat(last.op, last.args) # None
    /\ last.args.headers.map["Content-type"] = None

\* the media type the URL's shape asks for, in the format f
MediaTypeByUrlShape(api_url, f) ==
    IF contains(api_url, <<"/", "_operations">>)
    THEN <<"application/vnd.yang.operation+">> \o f
    ELSE IF contains(api_url, <<"/", "api", "/">>)
    THEN <<"application/vnd.yang.datastore+">> \o f
    ELSE <<"application/vnd.yang.data+">> \o f

\* C11 as stated: post, put and patch all choose the Content-type by the URL's
\* shape: operation for '/_operations', datastore for '/api/', data otherwise.
C11_ContentTypeByUrlEveryWrite ==
    NegotiatedContentTypeSent
        => last_request.headers["Content-type"]
             = MediaTypeByUrlShape(last.args.api_url,
                                   ResolvedFormat(last.op, last.args))

\* C11 (amended): post chooses the Content-type by the URL's shape (operation
\* for '/_operations', datastore for '/api/', data otherwise); put and patch
\* send application/vnd.yang.data+F whatever the URL.
C11_ContentTypeByUrlForPost ==
    NegotiatedContentTypeSent
        => last_request.headers["Content-type"]
             = IF last.op = "post"
               THEN MediaTypeByUrlShape(last.args.api_url,
                                        ResolvedFormat(last.op, last.args))
               ELSE <<"application/vnd.yang.data+">>
                    \o ResolvedFormat(last.op, last.args)

\* a put of xml text to an '/_operations' URL, sent as vnd.yang.data+xml
C11_Witness ==
    /\ NegotiatedContentTypeSent
    /\ last.op = "put"
    /\ contains(last.args.api_url, <<"/", "_operations">>)
    /\ last.args.content_type = None
    /\ last_request.headers["Content-type"]
         = <<"application/vnd.yang.data+", "x", "m", "l">>

\* C12: a request issued by get or delete carries no Content-type header of the
\* client's making (the caller giving none), whatever calls came before it on
\* the same connection, post, put and patch included.
C12_NoContentTypeOnGetDelete ==
    (/\ last.op \in {"get", "delete"} /\ last.sent = 1
     /\ last.args.headers.map["Content-type"] = None)
        => last_request.headers["Content-type"] = None

\* C13: every header the caller gives is sent with the caller's value, also
\* when the negotiation set the same key (Accept, Content-type): the caller's
\* headers are merged after the negotiated ones.
C13_CallerHeadersWin ==
    (last.op \in Verbs /\ last.sent = 1 /\ ~last.args.headers.is_none)
        => \A k \in HeaderNames :
              last.args.headers.map[k] # None
                  => last_request.headers[k] = last.args.headers.map[k]

\* a post of json whose caller gave its own Content-type: the negotiated
\* value is not the one sent
C13_Witness ==
    /\ last.op = "post" /\ last.sent = 1
    /\ last.args.content_type = json
    /\ last.args.headers.map["Content-type"] = <<"text/plain">>
    /\ last_request.headers["Content-type"] = <<"text/plain">>
    /\ prepare(last.op, last.args).content_type_header # <<"text/plain">>

\* the Accept header that shows which content type a call resolved to
AcceptOfContentType(op, ct) ==
    IF lower(ct) \notin {json, xml} THEN ct
    ELSE IF op = "delete" THEN <<"application/vnd.yang.data+">> \o lower(ct)
    ELSE ThreeMediaTypes(lower(ct))

\* C14: the content type a call resolves to is its content_type argument when
\* given; without it, get and delete take the client default, which is the
\* default_content_type of the connect that left Disconnected, and post, put
\* and patch with a string payload take xml when the payload starts with '<'
\* after leading whitespace, json otherwise (the empty payload too).
C14_ContentTypeResolution ==
    /\ []((/\ last.op \in Verbs /\ last.sent = 1
           /\ last.args.headers.map["Accept"] = None)
             => last_request.headers["Accept"]
                  = AcceptOfContentType(last.op,
                        IF last.args.content_type # None
                        THEN last.args.content_type
                        ELSE IF last.op \in {"get", "delete"}
                        THEN content_type
                        ELSE IF match_lt(lstrip(last.args.payload.text))
                        THEN xml
                        ELSE json))
    /\ [][/\ (last'.op = "connect" /\ ~_is_connected)
                => content_type' = last'.args.content_type
          /\ (last'.op \in Verbs \/ _is_connected)
                => content_type' = content_type]_vars

\* a patch without content_type whose payload starts with whitespace and '<',
\* negotiated as xml
C14_Witness ==
    /\ last.op = "patch" /\ last.sent = 1
    /\ last.args.content_type = None
    /\ last.args.payload.text = <<" ", "\n", "<", "config", "/", ">">>
    /\ last_request.headers["Accept"] = ThreeMediaTypes(xml)

\* a connect from Disconnected on the configuration ip '::1', port '8080',
\* protocol 'http', no host, that got as far as the probe
ConnectedToLoopback6 ==
    /\ last.op = "connect" /\ ~last.connected /\ last.sent = 1
    /\ connection_info = [ip |-> ipv6_loopback, port |-> <<"8080">>,
                          protocol |-> <<"http">>]

\* C15 as stated: with ip '::1', protocol 'http' and port '8080' the base URL
\* is 'http://[::1]:8080', and the probe goes to that URL followed by '/api'.
C15_LoopbackUrlAsWritten ==
    ConnectedToLoopback6
        => /\ base_url = <<"http", "://", "[", "::", "1", "]", ":", "8080">>
           /\ last_request.url = base_url \o <<"/", "api">>

\* C15 (amended): with ip '::1', protocol 'http' and port '8080' the base URL
\* is 'http://[0000:0000:0000:0000:0000:0000:0000:0001]:8080', the address
\* bracket-wrapped in its exploded form; the probe goes to it plus '/api'.
C15_LoopbackUrlExploded ==
    ConnectedToLoopback6
        => /\ base_url
                = <<"http", "://", "[",
                    "0", "0", "0", "0", ":", "0", "0", "0", "0", ":",
                    "0", "0", "0", "0", ":", "0", "0", "0", "0", ":",
                    "0", "0", "0", "0", ":", "0", "0", "0", "0", ":",
                    "0", "0", "0", "0", ":", "0", "0", "0", "1",
                    "]", ":", "8080">>
           /\ last_request.url = base_url \o <<"/", "api">>

\* the probe of '::1' answered 200: the client is Connected
C15_Witness ==
    /\ ConnectedToLoopback6
    /\ last.response = Response(200) /\ _is_connected
    /\ Len(base_url) = 45

\* C16: a connect on a configuration without 'host', without 'ip' and without
\* an SSH tunnel raises the configuration error (KeyError) before a session is
\* created or a probe sent, and the state stays Disconnected.
C16_NoHostNoIpFails ==
    (/\ last.op = "connect"
     /\ {"host", "ip", "sshtunnel"} \cap DOMAIN connection_info = {})
        => /\ last.error = "KeyError"
           /\ last.sent = 0
           /\ last_request = NoRequest
           /\ session = NoSession
           /\ base_url = None /\ login_url = None
           /\ ~_is_connected

\* a connect on a configuration that gives a protocol and nothing else
C16_Witness ==
    /\ last.op = "connect"
    /\ connection_info = [protocol |-> <<"https">>]
    /\ last.error = "KeyError" /\ ~_is_connected

\* C17: a connect from Disconnected on a configuration with an SSH tunnel,
\* the tunnel collaborator giving a local port, takes its target from the
\* tunnel: the base URL is '{protocol}://{tunnel_ip}:{tunnel_port}', the probe
\* is sent to it, and a probe answered 200 leaves the client Connected.
C17_TunnelTarget ==
    [][(/\ last'.op = "connect" /\ ~_is_connected
        /\ "sshtunnel" \in DOMAIN connection_info
        /\ sshtunnel.tunnel_port = None /\ sshtunnel'.tunnel_port # None)
          => /\ base_url' \in { p \o <<"://">> \o sshtunnel'.tunnel_ip
                                  \o <<":">> \o sshtunnel'.tunnel_port :
                                p \in IF "protocol" \in DOMAIN connection_info
                                      THEN {connection_info.protocol}
                                      ELSE Protocols }
             /\ last'.sent = 1
             /\ last_request'.method = "GET"
             /\ last_request'.url = base_url' \o <<"/", "api">>
             /\ (last'.response = Response(200)) => _is_connected']_vars

\* C18: a call of connect, get, post, put, patch or delete issues at most one
\* HTTP request, and when that request fails in the transport or is answered
\* with a status that is not expected, the same call raises.
C18_NoRetry ==
    (last.op \in Verbs \cup {"connect"})
        => /\ last.sent \in {0, 1}
           /\ (last.sent = 0) <=> (last_request = NoRequest)
           /\ (last.sent = 1 /\ last.response.raised)
                 => last.error = "ConnectionError"
           /\ (/\ last.sent = 1 /\ ~last.response.raised
               /\ last.response.status_code
                     \notin IF last.op = "connect" THEN {200}
                            ELSE last.args.expected_status_codes)
                 => last.error = "RequestException"

\* a put that the transport failed, raised to the caller after one request
C18_Witness ==
    /\ last.op = "put" /\ last.sent = 1
    /\ last.response.raised
    /\ last.error = "ConnectionError"
    /\ last_request.method = "PUT"

\* C19: a call that leaves expected_status_codes to its default accepts 204
\* and 200 when it is a get, and 201, 204 and 200 when it is a post, put, patch
\* or delete: a get answered 201 raises, a delete answered 201 returns.
C19_DefaultExpectedStatusCodes ==
    (/\ last.op \in Verbs /\ last.sent = 1 /\ ~last.response.raised
     /\ last.args.expected_status_codes \notin ExpectedArgs)
        => /\ last.args.expected_status_codes
                = IF last.op = "get" THEN {204, 200} ELSE {201, 204, 200}
           /\ (last.error = "none")
                <=> (last.response.status_code
                       \in IF last.op = "get" THEN {204, 200}
                           ELSE {201, 204, 200})
           /\ (last.op = "get" /\ last.response.status_code = 201)
                => last.error = "RequestException"
           /\ (last.op = "delete" /\ last.response.status_code = 201)
                => last.error = "none"

\* a get with the default expected_status_codes answered 201: it raised
C19_Witness ==
    /\ last.op = "get" /\ last.sent = 1
    /\ last.args.expected_status_codes \notin ExpectedArgs
    /\ last.response = Response(201)
    /\ last.error = "RequestException"

\* C20: a post, put or patch of a dict whose content type resolves to json or
\* xml in any case ('json', 'JSON', 'xml', 'Xml') hands the transport the
\* serialized payload, never the dict itself, serialized in the format the
\* negotiated headers name.
C20_DictSerializedAsNegotiated ==
    (/\ last.op \in {"post", "put", "patch"} /\ last.sent = 1
     /\ last.args.payload.is_dict
     /\ ResolvedFormat(last.op, last.args) # None)
        => /\ ~last_request.body.is_dict
           /\ last_request.body
                = IF ResolvedFormat(last.op, last.args) = json
                  THEN json_dumps(last.args.payload)
                  ELSE dict2xml(last.args.payload)

\* C21: in every state, Connected means that a session exists, open and with
\* the resolved credentials, and that a base URL and a default content type
\* are set; the state becomes Connected only by a connect whose probe on the
\* new session was answered 200, and while it stays Connected there is no
\* disconnect, no other probe, and session, base URL and default stay.
C21_ConnectedMeansProbedSession ==
    /\ [](_is_connected
            => /\ session.exists /\ ~session.closed
               /\ session.auth = << <<"admin">>, <<"admin">> >>
               /\ base_url # None /\ login_url = base_url \o <<"/", "api">>
               /\ content_type \in DefaultContentTypes)
    /\ [][/\ (~_is_connected /\ _is_connected')
               => /\ last'.op = "connect" /\ last'.sent = 1
                  /\ last'.response = Response(200)
                  /\ last_request'.url = login_url'
          /\ (_is_connected /\ _is_connected')
               => /\ last'.op # "disconnect"
                  /\ last'.op = "connect" => last'.sent = 0
                  /\ session'.auth = session.auth
                  /\ base_url' = base_url
                  /\ content_type' = content_type]_vars

\* a client still Connected after a request that failed its status check
C21_Witness ==
    /\ _is_connected
    /\ last.op = "delete" /\ last.error = "RequestException"
    /\ session.auth = get_username_password
    /\ session.headers # default_headers

\* what a connect from Disconnected that assigned self.session leaves: a new
\* open session with the default headers alone, one probe sent with them to
\* the login URL, and Connected exactly when the probe was answered 200
FreshSessionProbed ==
    /\ session'.exists /\ ~session'.closed
    /\ session'.headers = default_headers
    /\ \A k \in HeaderNames :
          (session.headers[k] # None /\ session.headers[k] # default_headers[k])
              => session'.headers[k] # session.headers[k]
    /\ last'.sent = 1
    /\ last_request'.method = "GET"
    /\ last_request'.url = login_url'
    /\ last_request'.headers = default_headers
    /\ _is_connected' <=> (last'.response = Response(200))

\* C22 as stated: every connect called in state Disconnected creates a fresh
\* session and sends exactly one probe; the new session has none of the
\* headers written on an earlier one; Connected iff the probe returned 200.
C22_ConnectAlwaysFreshSession ==
    [][(last'.op = "connect" /\ ~_is_connected) => FreshSessionProbed]_vars

\* C22 (amended): a connect called in state Disconnected either raises while
\* resolving its target (KeyError, ValueError, ImportError, AttributeError,
\* UnboundLocalError),
\* with no session created, no probe sent and the state left Disconnected, or
\* creates a fresh session and sends exactly one probe; the new session has
\* none of the headers written on an earlier one; Connected iff the probe
\* returned 200.
C22_ConnectFreshSessionOnceResolved ==
    [][(last'.op = "connect" /\ ~_is_connected)
          => IF last'.error \in {"KeyError", "ValueError", "AttributeError",
                                 "UnboundLocalError", "ImportError"}
             THEN /\ session' = session
                  /\ last'.sent = 0 /\ last_request' = NoRequest
                  /\ ~_is_connected'
             ELSE FreshSessionProbed]_vars

\* a connect after a disconnect, the earlier session having sent the caller's
\* X-Trace header: the new session does not have it, the client is Connected
C22_Witness ==
    /\ last.op = "connect" /\ ~last.connected
    /\ last.replaced["X-Trace"] = <<"1">>
    /\ last.replaced["Content-type"] # None
    /\ session.headers = default_headers
    /\ last.response = Response(200) /\ _is_connected

====
